---- MODULE Spec2Model ----
(***************************************************************************)
(* Model of src/app.py: the hospital record application.                   *)
(*                                                                         *)
(* The script is re-executed from its first line on every form submission  *)
(* (one "run").  A run loads patients.json and doctors.json into the       *)
(* module globals (lines 53-54), initialises the session state when absent *)
(* (lines 57-60) and then executes the handler of the button that was      *)
(* pressed.  Spec models one session whose runs are atomic; ConcSpec       *)
(* models two sessions whose Sign Up and Add Patient runs are split at     *)
(* the point between their load and their save.                            *)
(***************************************************************************)
EXTENDS Naturals, Sequences, FiniteSets, TLC

\* ---------------------------------------------------------------- bounds
\* Largest number of records the model lets a run see before it adds one.
MaxPatients == 2
MaxDoctors == 2
\* Cap of the wall clock that stamps the records.
MaxClock == 4

\* ---------------------------------------------------------------- inputs
Sessions == {1, 2}
SeqSessions == {1}

Usernames == {"", "alice", "bob"}
Passwords == {"", "secret1", "x"}
PatientNames == {"", "Ann"}
Ages == {0, 120}
\* Two of the three options of the select box of line 125.
Genders == {"Male", "Other"}
Cities == {"", "Pune"}
DoctorNames == {"", "Dr A", "No doctor available"}
Specializations == {"", "ENT"}

\* Inputs of the two-session specification.
ConcUsernames == {"alice", "bob"}
ConcPasswords == {"secret1"}
ConcPatientNames == {"Ann"}
ConcAges == {0}
ConcGenders == {"Other"}
ConcCities == {"Pune"}
ConcDoctorNames == {"Dr A"}
ConcSpecializations == {"ENT"}

\* ---------------------------------------------------------------- state
VARIABLES
    userFile,     \* users.json
    patientFile,  \* patients.json
    doctorFile,   \* doctors.json
    sess,         \* per session: st.session_state, the globals of its run
    clock,        \* datetime.datetime.now()
    registered    \* history: the (username, password) add_user returned True for

vars == <<userFile, patientFile, doctorFile, sess, clock, registered>>

\* ------------------------------------------------------- files (l. 13-35)
\* A slot: whether the file exists and the JSON container it holds.
Absent == [exists |-> FALSE, data |-> <<>>]

load_records(file) == IF file.exists THEN file.data ELSE <<>>

save_records(records) == [exists |-> TRUE, data |-> records]

\* users.json is only ever written by save_users, which writes a dict, so
\* the isinstance branch of line 28 always takes its first arm.
load_users(file) == IF file.exists THEN file.data ELSE <<>>

save_users(users) == save_records(users)

\* sha256(password.encode()).hexdigest() on the passwords of the model.
hash_password(password) ==
    CASE password = "" ->
           "e3b0c44298fc1c149afbf4c8996fb92427ae41e4649b934ca495991b7852b855"
      [] password = "secret1" ->
           "5b11618c2e44027877d0cd0921ed166b9f176f50587fc91e7534dd2946db77d6"
      [] password = "x" ->
           "2d711642b726b04401627ca9fbac32f5c8530fb1903cc4db02258717921a4881"
      [] password = "y" ->
           "a1fce4363854ff888cff4b8e7875d600c2682390412a8cf79b37d0b11148b0fa"

\* Variant: the assignment replaces the mapping instead of extending it.
SetItem_fresh(users, username, digest) ==
    [k \in {username} |-> digest]

\* users[username] = digest on a dict.
SetItem(users, username, digest) ==
    [k \in (DOMAIN users) \cup {username} |->
        IF k = username THEN digest ELSE users[k]]

\* Variant: the stored digest is compared with the plaintext password.
verify_user_plaintext(users, username, password) ==
    /\ username \in DOMAIN users
    /\ users[username] = password

\* verify_user with `users` the mapping returned by its load_users() call.
verify_user(users, username, password) ==
    /\ username \in DOMAIN users
    /\ users[username] = hash_password(password)

\* Variant: no `username in users` test, the entry is overwritten.
add_user_overwrite(users, username, password) ==
    [ret |-> TRUE, saved |-> TRUE,
     users |-> SetItem(users, username, hash_password(password))]

\* Variant of add_user: it tests and extends the mapping users.json holds
\* when it saves, not the one it loaded.
add_user_reload(users, username, password) ==
    IF username \in DOMAIN load_users(userFile)
    THEN [ret |-> FALSE, saved |-> FALSE, users |-> load_users(userFile)]
    ELSE [ret |-> TRUE, saved |-> TRUE,
          users |-> SetItem(load_users(userFile), username, hash_password(password))]

\* add_user after its load_users() call (line 45) returned `users`:
\* the return value, whether save_users ran, and the mapping it holds.
add_user(users, username, password) ==
    IF username \in DOMAIN users
    THEN [ret |-> FALSE, saved |-> FALSE, users |-> users]
    ELSE [ret |-> TRUE, saved |-> TRUE,
          users |-> SetItem(users, username, hash_password(password))]

\* ------------------------------------------------------- session state
NoSignal == [op |-> "none", kind |-> "none", arg |-> "", id |-> 0]

Signal(op, kind, arg, id) == [op |-> op, kind |-> kind, arg |-> arg, id |-> id]

NoForm == [user |-> "", pass |-> ""]

\* The state of a session after its first run (lines 53-60), no button
\* pressed: both files absent, so both lists load as [].
InitSession ==
    [logged_in |-> FALSE, username |-> "",
     pc |-> "idle",
     \* add_user's local `users` and arguments while the call is in progress
     users |-> <<>>, form |-> NoForm,
     patients |-> <<>>, doctors |-> <<>>,
     signal |-> NoSignal]

Init ==
    /\ userFile = Absent
    /\ patientFile = Absent
    /\ doctorFile = Absent
    /\ sess = [s \in Sessions |-> InitSession]
    /\ clock = 0
    /\ registered = {}

\* The users mapping a load_users() call returns in the current state.
Users == load_users(userFile)

\* Lines 53-54: the globals a run starts with.
RunStart(s) ==
    [sess[s] EXCEPT !.patients = load_records(patientFile),
                    !.doctors = load_records(doctorFile)]

\* ------------------------------------------------ Sign Up (lines 85-92)
\* Variant: add_user is called without the `new_user and new_pass` test.
SignUpOutcome_nocheck(users, new_user, new_pass) ==
    LET r == add_user(users, new_user, new_pass) IN
    [called |-> TRUE, ret |-> r.ret, saved |-> r.saved, users |-> r.users,
     signal |-> IF r.ret
                THEN Signal("SignUp", "success", new_user, 0)
                ELSE Signal("SignUp", "exists", new_user, 0)]

\* The outcome of the Sign Up handler when add_user's load returned `users`.
SignUpOutcome(users, new_user, new_pass) ==
    IF new_user # "" /\ new_pass # ""
    THEN LET r == add_user(users, new_user, new_pass) IN
         [called |-> TRUE, ret |-> r.ret, saved |-> r.saved, users |-> r.users,
          signal |-> IF r.ret
                     THEN Signal("SignUp", "success", new_user, 0)
                     ELSE Signal("SignUp", "exists", new_user, 0)]
    ELSE [called |-> FALSE, ret |-> FALSE, saved |-> FALSE, users |-> users,
          signal |-> Signal("SignUp", "fill", new_user, 0)]

SignUpEffect(s, run, users, new_user, new_pass) ==
    LET o == SignUpOutcome(users, new_user, new_pass) IN
    /\ userFile' = IF o.saved THEN save_users(o.users) ELSE userFile
    /\ registered' = IF o.ret THEN registered \cup {<<new_user, new_pass>>}
                     ELSE registered
    /\ sess' = [sess EXCEPT ![s] =
                  [run EXCEPT !.pc = "idle", !.users = <<>>,
                              !.form = NoForm, !.signal = o.signal]]
    /\ UNCHANGED <<patientFile, doctorFile, clock>>

\* A Sign Up submission that runs to completion.
SignUp(s, new_user, new_pass) ==
    /\ sess[s].pc = "idle"
    /\ ~sess[s].logged_in
    /\ SignUpEffect(s, RunStart(s), load_users(userFile), new_user, new_pass)

\* -------------------------------------------------- Login (lines 98-104)
\* Variant: the session is authenticated without consulting verify_user.
LoginOutcome_noverify(users, username, password) ==
    [logged_in |-> TRUE, username |-> username,
     signal |-> Signal("Login", "success", username, 0)]

LoginOutcome(users, username, password) ==
    IF verify_user(users, username, password)
    THEN [logged_in |-> TRUE, username |-> username,
          signal |-> Signal("Login", "success", username, 0)]
    ELSE [logged_in |-> FALSE, username |-> "",
          signal |-> Signal("Login", "invalid", username, 0)]

Login(s, username, password) ==
    /\ sess[s].pc = "idle"
    /\ ~sess[s].logged_in
    /\ LET o == LoginOutcome(load_users(userFile), username, password) IN
       sess' = [sess EXCEPT ![s] =
                  [RunStart(s) EXCEPT
                     !.logged_in = IF o.logged_in THEN TRUE ELSE @,
                     !.username = IF o.logged_in THEN o.username ELSE @,
                     !.signal = o.signal]]
    /\ UNCHANGED <<userFile, patientFile, doctorFile, clock, registered>>

\* ------------------------------------------------ Logout (lines 203-207)
\* Variant: logged_in is reset but the username is kept.
Logout_keepname(s) ==
    /\ sess[s].pc = "idle"
    /\ sess[s].logged_in
    /\ sess' = [sess EXCEPT ![s] =
                  [RunStart(s) EXCEPT !.logged_in = FALSE,
                                      !.signal = Signal("Logout", "success", "", 0)]]
    /\ UNCHANGED <<userFile, patientFile, doctorFile, clock, registered>>

Logout(s) ==
    /\ sess[s].pc = "idle"
    /\ sess[s].logged_in
    /\ sess' = [sess EXCEPT ![s] =
                  [RunStart(s) EXCEPT !.logged_in = FALSE, !.username = "",
                                      !.signal = Signal("Logout", "success", "", 0)]]
    /\ UNCHANGED <<userFile, patientFile, doctorFile, clock, registered>>

\* --------------------------------------------- Add Patient (lines 119-139)
\* Line 127: the options of the "Assign Doctor" select box.
DoctorOptions(doctors) ==
    IF doctors # <<>>
    THEN {doctors[i].name : i \in DOMAIN doctors}
    ELSE {"No doctor available"}

\* Variant: the placeholder option is not refused.
PatientValid_nosentinel(name, city, doctor) ==
    name # "" /\ city # "" /\ doctor # ""

\* Line 131: the validation of the submitted form.
PatientValid(name, city, doctor) ==
    name # "" /\ city # "" /\ doctor # "" /\ doctor # "No doctor available"

\* Variant: the id is the count, not the count plus one.
NextPatientId_len(patients) == Len(patients)

\* Line 132.
NextPatientId(patients) == Len(patients) + 1

\* Lines 130-138 on the globals `patients` of the run.
AddPatientOutcome(patients, name, age, gender, city, doctor, now) ==
    IF PatientValid(name, city, doctor)
    THEN LET patient_id == NextPatientId(patients)
             data == [id |-> patient_id, name |-> name, age |-> age,
                      gender |-> gender, city |-> city, doctor |-> doctor,
                      timestamp |-> now]
         IN [ok |-> TRUE, patients |-> Append(patients, data),
             signal |-> Signal("AddPatient", "success", name, patient_id)]
    ELSE [ok |-> FALSE, patients |-> patients,
          signal |-> Signal("AddPatient", "warning", name, 0)]

AddPatientEffect(s, run, name, age, gender, city, doctor) ==
    LET o == AddPatientOutcome(run.patients, name, age, gender, city, doctor, clock) IN
    /\ doctor \in DoctorOptions(run.doctors)
    /\ Len(run.patients) < MaxPatients
    /\ clock < MaxClock
    /\ patientFile' = IF o.ok THEN save_records(o.patients) ELSE patientFile
    /\ clock' = IF o.ok THEN clock + 1 ELSE clock
    /\ sess' = [sess EXCEPT ![s] =
                  [run EXCEPT !.pc = "idle", !.patients = o.patients,
                              !.signal = o.signal]]
    /\ UNCHANGED <<userFile, doctorFile, registered>>

\* An Add Patient submission that runs to completion.
AddPatient(s, name, age, gender, city, doctor) ==
    /\ sess[s].pc = "idle"
    /\ sess[s].logged_in
    /\ AddPatientEffect(s, RunStart(s), name, age, gender, city, doctor)

\* ---------------------------------------------- Add Doctor (lines 162-180)
\* Line 172.
DoctorValid(name, specialization, city) ==
    name # "" /\ specialization # "" /\ city # ""

\* Line 173.
NextDoctorId(doctors) == Len(doctors) + 1

\* Lines 171-179 on the globals `doctors` of the run.
AddDoctorOutcome(doctors, name, specialization, city, now) ==
    IF DoctorValid(name, specialization, city)
    THEN LET doctor_id == NextDoctorId(doctors)
             data == [id |-> doctor_id, name |-> name,
                      specialization |-> specialization, city |-> city,
                      timestamp |-> now]
         IN [ok |-> TRUE, doctors |-> Append(doctors, data),
             signal |-> Signal("AddDoctor", "success", name, doctor_id)]
    ELSE [ok |-> FALSE, doctors |-> doctors,
          signal |-> Signal("AddDoctor", "warning", name, 0)]

AddDoctor(s, name, specialization, city) ==
    /\ sess[s].pc = "idle"
    /\ sess[s].logged_in
    /\ LET run == RunStart(s)
           o == AddDoctorOutcome(run.doctors, name, specialization, city, clock)
       IN /\ Len(run.doctors) < MaxDoctors
          /\ clock < MaxClock
          /\ doctorFile' = IF o.ok THEN save_records(o.doctors) ELSE doctorFile
          /\ clock' = IF o.ok THEN clock + 1 ELSE clock
          /\ sess' = [sess EXCEPT ![s] =
                        [run EXCEPT !.doctors = o.doctors, !.signal = o.signal]]
    /\ UNCHANGED <<userFile, patientFile, registered>>

\* ------------------------- View Patients / View Doctors (l. 142-159, 183-200)
\* The page as first rendered: the search box holds "", which every name
\* contains, so the filtered list is the whole list.
ViewPatients(s) ==
    /\ sess[s].pc = "idle"
    /\ sess[s].logged_in
    /\ LET run == RunStart(s) IN
       sess' = [sess EXCEPT ![s] =
                  [run EXCEPT !.signal =
                     Signal("ViewPatients",
                            IF run.patients = <<>> THEN "info" ELSE "list",
                            "", Len(run.patients))]]
    /\ UNCHANGED <<userFile, patientFile, doctorFile, clock, registered>>

ViewDoctors(s) ==
    /\ sess[s].pc = "idle"
    /\ sess[s].logged_in
    /\ LET run == RunStart(s) IN
       sess' = [sess EXCEPT ![s] =
                  [run EXCEPT !.signal =
                     Signal("ViewDoctors",
                            IF run.doctors = <<>> THEN "info" ELSE "list",
                            "", Len(run.doctors))]]
    /\ UNCHANGED <<userFile, patientFile, doctorFile, clock, registered>>

\* ------------------------------------------- one session, atomic runs
Next ==
    \E s \in SeqSessions :
        \/ \E u \in Usernames, p \in Passwords : SignUp(s, u, p)
        \/ \E u \in Usernames, p \in Passwords : Login(s, u, p)
        \/ Logout(s)
        \/ \E n \in PatientNames, a \in Ages, g \in Genders, c \in Cities,
              d \in DoctorNames : AddPatient(s, n, a, g, c, d)
        \/ \E n \in DoctorNames, sp \in Specializations, c \in Cities :
              AddDoctor(s, n, sp, c)
        \/ ViewPatients(s)
        \/ ViewDoctors(s)

Spec == Init /\ [][Next]_vars

\* ------------------------------- two sessions, load and save interleaved
\* A Sign Up run up to the return of add_user's load_users() (line 45).
SignUpLoad(s, new_user, new_pass) ==
    /\ sess[s].pc = "idle"
    /\ ~sess[s].logged_in
    /\ new_user # "" /\ new_pass # ""
    /\ sess' = [sess EXCEPT ![s] =
                  [RunStart(s) EXCEPT !.pc = "add_user",
                                      !.users = load_users(userFile),
                                      !.form = [user |-> new_user, pass |-> new_pass]]]
    /\ UNCHANGED <<userFile, patientFile, doctorFile, clock, registered>>

\* The rest of that run: lines 46-50 and the signal of lines 87-90.
SignUpSave(s) ==
    /\ sess[s].pc = "add_user"
    /\ SignUpEffect(s, sess[s], sess[s].users, sess[s].form.user, sess[s].form.pass)

\* An Add Patient run up to the loads of lines 53-54.
AddPatientLoad(s) ==
    /\ sess[s].pc = "idle"
    /\ sess[s].logged_in
    /\ sess' = [sess EXCEPT ![s] = [RunStart(s) EXCEPT !.pc = "add_patient"]]
    /\ UNCHANGED <<userFile, patientFile, doctorFile, clock, registered>>

\* The rest of that run: lines 123-138 on the globals it loaded.
AddPatientSave(s, name, age, gender, city, doctor) ==
    /\ sess[s].pc = "add_patient"
    /\ AddPatientEffect(s, sess[s], name, age, gender, city, doctor)

ConcNext ==
    \E s \in Sessions :
        \/ \E u \in ConcUsernames, p \in ConcPasswords : SignUpLoad(s, u, p)
        \/ SignUpSave(s)
        \/ \E u \in ConcUsernames, p \in ConcPasswords : Login(s, u, p)
        \/ Logout(s)
        \/ AddPatientLoad(s)
        \/ \E n \in ConcPatientNames, a \in ConcAges, g \in ConcGenders,
              c \in ConcCities, d \in ConcDoctorNames :
              AddPatientSave(s, n, a, g, c, d)
        \/ \E n \in ConcDoctorNames, sp \in ConcSpecializations, c \in ConcCities :
              AddDoctor(s, n, sp, c)

ConcSpec == Init /\ [][ConcNext]_vars

\* ================================================================ claims
Patients == load_records(patientFile)
Doctors == load_records(doctorFile)

\* verify_user(u, p) called in the current state.
VerifyNow(u, p) == verify_user(Users, u, p)

\* The step is a run of handler `op` in session s that changed something.
Ran(s, op) == sess'[s].signal.op = op /\ sess'[s] # sess[s]

\* ---------------------------------------------------------------- C1
RegisteredKept ==
    \A r \in registered :
        /\ r[1] \in DOMAIN Users
        /\ Users[r[1]] = hash_password(r[2])

DuplicateSignUpRefused ==
    \A s \in Sessions :
        Ran(s, "SignUp") =>
            \A u \in Usernames \ {""}, p2 \in Passwords \ {""} :
                \* both fields filled in: the handler calls add_user(u, p2)
                (/\ \E p1 \in Passwords : <<u, p1>> \in registered
                 /\ SignUp(s, u, p2))
                => /\ sess'[s].signal = Signal("SignUp", "exists", u, 0)
                   /\ userFile' = userFile
                   /\ registered' = registered

\* C1: once add_user(u, p1) has returned True, every later add_user(u, p2)
\* returns False and leaves the users slot unchanged, and the digest stored
\* for u stays hash_password(p1).
C1_RegistrationUniqueness ==
    /\ []RegisteredKept
    /\ [][DuplicateSignUpRefused]_vars

\* A second sign-up for a registered name was refused and the first digest
\* is still the one stored.
C1_Witness ==
    \E s \in Sessions : \E r \in registered :
        /\ sess[s].signal = Signal("SignUp", "exists", r[1], 0)
        /\ Users[r[1]] = hash_password(r[2])

\* ---------------------------------------------------------------- C2
VerifyIffRegistered ==
    \A u \in Usernames, p \in Passwords :
        VerifyNow(u, p) <=> <<u, p>> \in registered

LoginReadsOnly ==
    \A s \in Sessions :
        Ran(s, "Login") =>
            /\ userFile' = userFile
            /\ sess'[s].signal.kind = "invalid" =>
                  /\ sess'[s].logged_in = sess[s].logged_in
                  /\ sess'[s].username = sess[s].username

\* C2: verify_user(u, p) is True exactly for the (u, p) whose add_user(u, p)
\* succeeded: False for that u with another password, False for a username
\* never registered; and the verification changes neither the users slot
\* nor, when it fails, the session.
C2_VerificationCorrectness ==
    /\ []VerifyIffRegistered
    /\ [][LoginReadsOnly]_vars

\* A registered pair verifies, another password for the same name does not,
\* and a Login has been submitted.
C2_Witness ==
    \E s \in Sessions : \E r \in registered : \E p \in Passwords :
        /\ VerifyNow(r[1], r[2])
        /\ p # r[2] /\ p # "" /\ ~VerifyNow(r[1], p)
        /\ sess[s].signal = Signal("Login", "invalid", r[1], 0)

\* ---------------------------------------------------------------- C3
\* C3: in every reachable state the session username is non-empty iff
\* logged_in is True, a logged-in username is a key of the users slot, and
\* no empty username or password was ever passed to add_user.
C3_SessionInvariant ==
    /\ \A s \in Sessions :
          /\ (sess[s].username # "") <=> sess[s].logged_in
          /\ sess[s].logged_in => sess[s].username \in DOMAIN Users
    /\ \A r \in registered : r[1] # "" /\ r[2] # ""
    /\ "" \notin DOMAIN Users

\* A Login succeeded: the session holds a registered, non-empty identity.
C3_Witness ==
    \E s \in Sessions :
        /\ sess[s].logged_in
        /\ sess[s].username = "alice"
        /\ sess[s].signal.op = "Login"

\* ---------------------------------------------------------------- C4
SuccessfulLogin(s) ==
    \E u \in Usernames, p \in Passwords :
        /\ Login(s, u, p)
        /\ VerifyNow(u, p)
        /\ sess'[s].username = u

\* C4: a step from Anonymous either is a Login whose verify_user is True,
\* and then sets the identity to the submitted username, or it leaves
\* logged_in = False and username = "".
C4_OnlyLoginAuthenticates ==
    [][\A s \in Sessions :
          ~sess[s].logged_in =>
              IF sess'[s].logged_in
              THEN SuccessfulLogin(s)
              ELSE sess'[s].username = ""]_vars

\* A Login has just authenticated the session as the name it submitted.
C4_Witness ==
    \E s \in Sessions :
        /\ sess[s].signal = Signal("Login", "success", "bob", 0)
        /\ sess[s].logged_in
        /\ sess[s].username = "bob"

\* ---------------------------------------------------------------- C5
\* C5: a Logout step from an Authenticated state yields logged_in = False
\* and username = "", leaves the three slots unchanged, and the credentials
\* the identity registered with still verify afterwards.
C5_LogoutUnconditional ==
    [][\A s \in Sessions :
          (sess[s].logged_in /\ Ran(s, "Logout")) =>
              /\ ~sess'[s].logged_in
              /\ sess'[s].username = ""
              /\ userFile' = userFile
              /\ patientFile' = patientFile
              /\ doctorFile' = doctorFile
              /\ \E p \in Passwords :
                    /\ <<sess[s].username, p>> \in registered
                    /\ verify_user(load_users(userFile'), sess[s].username, p)]_vars

\* After records were added, a Logout has returned the session to Anonymous.
C5_Witness ==
    \E s \in Sessions :
        /\ sess[s].signal.op = "Logout"
        /\ ~sess[s].logged_in
        /\ Patients # <<>>
        /\ Doctors # <<>>

\* ---------------------------------------------------------------- C6
\* C6: over submissions that each run to completion, every key of the users
\* slot stays a key with the digest it had: the key set only grows.
C6_CredentialsNeverChange ==
    [][\A u \in DOMAIN Users :
          /\ u \in DOMAIN load_users(userFile')
          /\ load_users(userFile')[u] = Users[u]]_vars

\* Two accounts exist, the first still with its digest after the second
\* sign-up and after records were added.
C6_Witness ==
    /\ DOMAIN Users = {"alice", "bob"}
    /\ \E p1, p2 \in Passwords :
          /\ p1 # p2
          /\ registered = {<<"alice", p1>>, <<"bob", p2>>}
          /\ Users["alice"] = hash_password(p1)
    /\ Patients # <<>>

\* ---------------------------------------------------------------- C7
IdsInOrder(records) == \A k \in 1..Len(records) : records[k].id = k

\* C7: the persisted patients (doctors) sequence holds the record with id k
\* at position k, and the id a successful submission signalled is the
\* length of the sequence it persisted.
C7_RecordIdMonotonicity ==
    /\ IdsInOrder(Patients)
    /\ IdsInOrder(Doctors)
    /\ \A s \in SeqSessions :
          /\ (sess[s].signal.op = "AddPatient" /\ sess[s].signal.kind = "success")
                => sess[s].signal.id = Len(Patients)
          /\ (sess[s].signal.op = "AddDoctor" /\ sess[s].signal.kind = "success")
                => sess[s].signal.id = Len(Doctors)

\* The second patient has just been given id 2, after two doctors.
C7_Witness ==
    /\ Len(Patients) = 2
    /\ Len(Doctors) = 2
    /\ \E s \in Sessions : sess[s].signal = Signal("AddPatient", "success", "Ann", 2)

\* ---------------------------------------------------------------- C8
\* C8: when the doctors list is empty, an Add Patient submission is refused
\* and changes neither the in-memory patients list nor patients.json.
C8_AddPatientRequiresDoctor ==
    [][\A s \in Sessions :
          (Ran(s, "AddPatient") /\ Doctors = <<>>) =>
              /\ sess'[s].signal.kind = "warning"
              /\ patientFile' = patientFile
              /\ sess'[s].patients = Patients]_vars

\* A submission with the name filled in was refused while no doctor exists.
C8_Witness ==
    \E s \in Sessions :
        /\ sess[s].signal = Signal("AddPatient", "warning", "Ann", 0)
        /\ Doctors = <<>>
        /\ Patients = <<>>

\* ---------------------------------------------------------------- C9
\* C9: every Add Patient submission with a non-empty name, a non-empty city
\* and a doctor selected from a non-empty doctor list appends one record
\* with id = count + 1 carrying that doctor's name and persists it.
C9_ValidPatientAccepted ==
    [][\A s \in Sessions :
          \A n \in PatientNames, a \in Ages, g \in Genders, c \in Cities,
             d \in DoctorNames :
             (/\ n # "" /\ c # ""
              /\ Doctors # <<>>
              /\ d \in DoctorOptions(Doctors)
              /\ AddPatient(s, n, a, g, c, d))
             => /\ sess'[s].signal.kind = "success"
                /\ Len(load_records(patientFile')) = Len(Patients) + 1
                /\ load_records(patientFile')[Len(Patients) + 1].id = Len(Patients) + 1
                /\ load_records(patientFile')[Len(Patients) + 1].doctor = d]_vars

\* The submissions of C9 whose doctor is not named like the placeholder
\* option of line 127 are all accepted.
AcceptedUnlessPlaceholder ==
    [][\A s \in Sessions :
          \A n \in PatientNames, a \in Ages, g \in Genders, c \in Cities,
             d \in DoctorNames :
             (/\ n # "" /\ c # ""
              /\ Doctors # <<>>
              /\ d \in DoctorOptions(Doctors)
              /\ d # "No doctor available"
              /\ AddPatient(s, n, a, g, c, d))
             => /\ sess'[s].signal.kind = "success"
                /\ Len(load_records(patientFile')) = Len(Patients) + 1
                /\ load_records(patientFile')[Len(Patients) + 1].id = Len(Patients) + 1
                /\ load_records(patientFile')[Len(Patients) + 1].doctor = d]_vars

\* --------------------------------------------------------------- C10
\* C10: a save writes the snapshot its session loaded plus that session's
\* own record, whatever the slot holds by then, so a record another session
\* saved after the load is lost although both sessions signal success.
C10_LastWriterWins ==
    [][\A s \in Sessions :
          /\ (sess[s].pc = "add_user" /\ sess'[s].signal.kind = "success"
                 /\ sess'[s].pc = "idle")
             => load_users(userFile') =
                   SetItem(sess[s].users, sess[s].form.user,
                           hash_password(sess[s].form.pass))
          /\ (sess[s].pc = "add_patient" /\ sess'[s].signal.kind = "success"
                 /\ sess'[s].pc = "idle")
             => /\ Len(load_records(patientFile')) = Len(sess[s].patients) + 1
                /\ SubSeq(load_records(patientFile'), 1, Len(sess[s].patients))
                      = sess[s].patients]_vars

\* add_user returned True for a username that is no longer in the users
\* slot, and both sessions were told their patient was added with id 1
\* while patients.json holds one record.
C10_Witness ==
    /\ \E r \in registered : r[1] \notin DOMAIN Users
    /\ \A s \in Sessions : sess[s].signal = Signal("AddPatient", "success", "Ann", 1)
    /\ Len(Patients) = 1

====
